---- MODULE Spec2Model ----
(***************************************************************************)
(* A model of insights/collect.py: the manifest-driven collection run.     *)
(*                                                                         *)
(* A component is identified by its dotted name, held as a sequence of     *)
(* one-character strings, so that startswith, name equality and the order  *)
(* of sorted(..., key=dr.get_name) are computed as Python computes them.   *)
(* The modules collect.py imports (insights.dr, insights.core.blacklist,   *)
(* insights.core.serde, insights.util.fs) are modelled from the design     *)
(* document; every such definition says so.                                *)
(***************************************************************************)
EXTENDS Integers, Sequences, FiniteSets, TLC

VARIABLES
    pc,             \* position of collect()/main()
    caller,         \* "main" (compress=True, prints) or "collect" (compress=False)
    manifest,       \* the manifest handed to collect()
    dr_DELEGATES,      \* dr.DELEGATES: the registered components
    dr_ENABLED,        \* dr.ENABLED: explicit keys of the enabled-state map
    enabledDefault, \* the default_factory of dr.ENABLED
    blacklist,      \* command identifiers added to the blacklist
    to_persist,     \* the set get_to_persist returned
    max_file_size,  \* manifest max_serializable_file_size as read by collect
    broker,         \* dr.Broker: instances, exceptions, observers
    status,         \* scheduler: per component "none", "ok" or "failed"
    executed,       \* history: how many times each component was executed
    early,          \* history: per component, the declared dependencies still
                    \* unresolved when it started executing
    pending,        \* the component whose completion is being announced
    notified,       \* history: per component, the observers called for its
                    \* completion, in the order of the calls
    data,           \* data/<name>.<ser>: the document on disk, or NoFile
    writes,         \* history: how many times data/<name>.<ser> was opened for writing
    raw_data,       \* files copied under raw_data/
    logged,         \* history: the failures logged, each with its component and
                    \* the call that raised
    workdir,        \* the output directory: "absent", "present", "removed"
    archive,        \* the .tar.gz: "none", "complete", "broken"
    result,         \* what collect() returned or raised
    printed         \* what main() printed

vars == <<pc, caller, manifest, dr_DELEGATES, dr_ENABLED, enabledDefault, blacklist,
          to_persist, max_file_size, broker, status, executed, early, pending,
          notified, data, writes, raw_data, logged, workdir, archive, result, printed>>

----------------------------------------------------------------------------
(* Bounds of the model *)

\* longest configs list of a manifest of the run
MaxConfigs == 1
\* longest persist list of a manifest of the run
MaxPersist == 1
\* most command identifiers in a manifest's blacklist
MaxBlacklist == 1
\* longest override list handed to apply_configs / get_to_persist on their own
MaxOverrides == 2
\* largest file size and threshold of the relocation cases
MaxSize == 2
\* longest list of results handed to relocate
MaxListLen == 2

----------------------------------------------------------------------------
(* Names *)

\* Python compares strings by code point
Ord(ch) ==
    CASE ch = "." -> 46
      [] ch = "H" -> 72
      [] ch = "X" -> 88
      [] ch = "Y" -> 89
      [] ch = "Z" -> 90
      [] ch = "a" -> 97
      [] ch = "b" -> 98
      [] ch = "c" -> 99
      [] ch = "g" -> 103
      [] ch = "k" -> 107
      [] ch = "p" -> 112

\* str.startswith
StartsWith(s, p) == Len(p) <= Len(s) /\ SubSeq(s, 1, Len(p)) = p

\* s < t for Python strings
RECURSIVE StrLess(_, _)
StrLess(s, t) ==
    IF t = <<>> THEN FALSE
    ELSE IF s = <<>> THEN TRUE
    ELSE IF Head(s) = Head(t) THEN StrLess(Tail(s), Tail(t))
    ELSE Ord(Head(s)) < Ord(Head(t))

\* dr.get_name: a component is identified by its dotted name
get_name(c) == c

\* sorted(S, key=dr.get_name)
RECURSIVE SortedByName(_)
SortedByName(S) ==
    IF S = {} THEN <<>>
    ELSE LET m == CHOOSE x \in S :
                    \A y \in S \ {x} : StrLess(get_name(x), get_name(y))
         IN  <<m>> \o SortedByName(S \ {m})

\* the components of the run's registry
pkg == <<"p", "k", "g">>
pkgX == <<"p", "k", "g", ".", "X">>
pkgY == <<"p", "k", "g", ".", "Y">>
pkgZ == <<"p", "k", "g", ".", "Z">>
Components == {pkgX, pkgY, pkgZ}

\* declared dependencies: pkg.Y depends on pkg.X
Deps(c) == IF c = pkgY THEN {pkgX} ELSE {}

\* the execution-context class named by the manifest's context descriptor
CtxClass == <<"c", ".", "H">>

\* names of the override cases of section 8
nA == <<"a">>
nAB == <<"a", ".", "b">>
nABC == <<"a", ".", "b", ".", "c">>
nAC == <<"a", ".", "c">>
nAb == <<"a", "b">>
nB == <<"b">>
OverrideNames == {nA, nAB, nABC, nAC, nAb, nB}

AllIds == Components \cup {CtxClass} \cup OverrideNames

----------------------------------------------------------------------------
(* Values *)

None == [kind |-> "none"]
NoFile == [kind |-> "nofile"]
Inline == [kind |-> "inline", empty |-> FALSE]
Empty == [kind |-> "inline", empty |-> TRUE]
FileProvider(path, size, loaded) ==
    [kind |-> "file", path |-> path, size |-> size, loaded |-> loaded]
ListOf(items) == [kind |-> "list", items |-> items]
Raised == [kind |-> "exception"]
CtxObject == [kind |-> "context"]

\* Python truthiness of a component's value
Truthy(v) ==
    CASE v.kind = "none" -> FALSE
      [] v.kind = "inline" -> ~v.empty
      [] v.kind = "list" -> v.items # <<>>
      [] OTHER -> TRUE

\* serde.marshal: None stays None, anything else becomes its serialized form
marshal(v) == IF v = None THEN None ELSE [kind |-> "marshalled", of |-> v]

\* insights.get_filters: the filter substrings registered for a component
get_filters(c) == IF c = pkgZ THEN {"filter"} ELSE {}

----------------------------------------------------------------------------
(* Enablement: apply_default_enabled, apply_configs *)

\* dr.ENABLED[c] read through the map's default factory
IsEnabled(en, dflt, c) == IF c \in DOMAIN en THEN en[c] ELSE dflt

\* dr.ENABLED[c] = v
SetKey(en, c, v) == [k \in DOMAIN en \cup {c} |-> IF k = c THEN v ELSE en[k]]

\* comp_cfg.get("enabled", True) and the persist directive's p.get("enabled", True)
GetEnabled(cfg) == IF "enabled" \in DOMAIN cfg THEN cfg.enabled ELSE TRUE

\* a sweep that leaves the existing keys as they are
DefaultedKeys_KeepKeys(en, default_enabled) == en

\* apply_default_enabled: every existing key is overwritten
DefaultedKeys(en, default_enabled) == [k \in DOMAIN en |-> default_enabled]

\* an inner loop that goes on after the exact match
ConfigSweep_NoBreak(en, keys, comp_cfg, i) ==
    LET hit == {keys[j] : j \in {k \in i..Len(keys) :
                                    StartsWith(get_name(keys[k]), comp_cfg.name)}}
    IN  [c \in DOMAIN en \cup hit |->
            IF c \in hit THEN GetEnabled(comp_cfg) ELSE en[c]]

\* the inner loop of apply_configs for one entry, from position i of the sorted
\* keys: a prefix match sets the state, an exact match ends the loop
RECURSIVE ConfigSweep(_, _, _, _)
ConfigSweep(en, keys, comp_cfg, i) ==
    IF i > Len(keys) THEN en
    ELSE LET c == keys[i]
             cname == get_name(c)
             en2 == IF StartsWith(cname, comp_cfg.name)
                    THEN SetKey(en, c, GetEnabled(comp_cfg))
                    ELSE en
         IN  IF cname = comp_cfg.name THEN en2
             ELSE ConfigSweep(en2, keys, comp_cfg, i + 1)

\* the entries applied last to first
RECURSIVE apply_configs_Reversed(_, _, _)
apply_configs_Reversed(en, delegates, configs) ==
    IF configs = <<>> THEN en
    ELSE apply_configs_Reversed(
             ConfigSweep(en, SortedByName(delegates), configs[Len(configs)], 1),
             delegates, SubSeq(configs, 1, Len(configs) - 1))

\* apply_configs: the entries in list order, each over the sorted components
RECURSIVE apply_configs(_, _, _)
apply_configs(en, delegates, configs) ==
    IF configs = <<>> THEN en
    ELSE apply_configs(ConfigSweep(en, SortedByName(delegates), Head(configs), 1),
                       delegates, Tail(configs))

----------------------------------------------------------------------------
(* Persist directives: get_to_persist *)

\* specs(): a directive is a mapping {name, enabled} or a bare name
SpecName(p) == IF "name" \in DOMAIN p THEN p.name ELSE p.str
SpecEnabled(p) == IF "name" \in DOMAIN p THEN GetEnabled(p) ELSE TRUE

\* the inner loop of get_to_persist for one directive: no early exit
PersistSweep(results, delegates, p) ==
    LET hit == {c \in delegates : StartsWith(get_name(c), SpecName(p))}
    IN  IF SpecEnabled(p) THEN results \cup hit ELSE results \ hit

RECURSIVE PersistFold(_, _, _)
PersistFold(results, delegates, persisters) ==
    IF persisters = <<>> THEN results
    ELSE PersistFold(PersistSweep(results, delegates, Head(persisters)),
                     delegates, Tail(persisters))

get_to_persist(delegates, persisters) == PersistFold({}, delegates, persisters)

----------------------------------------------------------------------------
(* Relocation: relocate / move_it *)

\* copy when Popen raises: open(dst, "wb") has created the file and nothing
\* was written to it
copy_opened(rel) == [path |-> rel, filtered |-> TRUE, copied |-> FALSE]

\* how a copy command ends: with status 0, with a failure before it wrote
\* anything ("failed"), or with a failure after it began to write
\* ("truncated")
CopyStatus == {"ok", "failed", "truncated"}

\* copy(src, dst, filters): the files under raw_data/ the call leaves, cmd
\* telling how the command ends. The status is dropped and copy returns
\* either way. With filters, open(dst, "wb") creates the file and grep -F
\* writes to it: the file is there whatever grep does. Without filters cp
\* makes the file: a cp that fails leaves none, or an empty or truncated one.
copy(rel, filters, cmd) ==
    IF filters # {}
    THEN {[path |-> rel, filtered |-> TRUE, copied |-> cmd = "ok"]}
    ELSE IF cmd = "failed" THEN {}
         ELSE {[path |-> rel, filtered |-> FALSE, copied |-> cmd = "ok"]}

\* a comparison that also takes a file of exactly the threshold for too big
TooBig_OrEqual(r, max_size) == max_size # 0 /\ r.size >= max_size

\* max_size and os.path.getsize(src) > max_size
TooBig(r, max_size) == max_size # 0 /\ r.size > max_size

\* move_it: the provider after the call, and the files copy left; cmd is how
\* the copy command ends, should the call reach it
move_it(r, max_size, filters, cmd) ==
    IF r.kind # "file" THEN [value |-> r, copies |-> {}]
    ELSE IF ~r.loaded
         THEN IF TooBig(r, max_size)
              THEN [value |-> r, copies |-> copy(r.path, filters, cmd)]
              ELSE [value |-> [r EXCEPT !.loaded = TRUE], copies |-> {}]
         ELSE [value |-> r, copies |-> {}]

\* relocate: move_it over a list, or over the single result; cmds tells how
\* the copy command of each item ends
relocate(results, max_size, filters, cmds) ==
    IF results.kind = "list"
    THEN LET moved == [i \in 1..Len(results.items) |->
                          move_it(results.items[i], max_size, filters, cmds[i])]
         IN  [value |-> ListOf([i \in 1..Len(results.items) |-> moved[i].value]),
              copies |-> UNION {moved[i].copies : i \in 1..Len(results.items)}]
    ELSE move_it(results, max_size, filters, cmds[1])

----------------------------------------------------------------------------
(* The persister observer: make_persister.persister *)

RunIds == Components \cup {CtxClass}
NoComponent == <<>>

\* a test that takes every component for present
InBroker_Always(brk, c) == TRUE

\* c in broker: Broker.__contains__ looks at the value map
InBroker(brk, c) == brk.instances[c] # None

\* what can go wrong in one call of the persister. An exception: none, in the
\* dump to the file, in marshal, or in relocate at the item numbered at,
\* either before anything is created under raw_data/ ("relocate") or in
\* Popen, after copy has opened the destination ("popen"). And, with no
\* exception, how the copy command of each item ends.
PersistOutcomes ==
    [fails : {"nothing", "dump", "marshal"}, at : {0},
     cmds : [1..MaxListLen -> CopyStatus]]
        \cup [fails : {"relocate", "popen"}, at : 1..MaxListLen,
              cmds : [1..MaxListLen -> CopyStatus]]

\* os.path.getsize, result.content and copy are reached for an unloaded file
\* provider only: the items of results at which move_it can raise
CanRaiseAt(results, k) ==
    IF results.kind = "list"
    THEN /\ k \in 1..Len(results.items)
         /\ results.items[k].kind = "file"
         /\ ~results.items[k].loaded
    ELSE k = 1 /\ results.kind = "file" /\ ~results.loaded

\* copy is reached for an unloaded file provider larger than the threshold:
\* the items of results whose copy command can fail
CopiesAt(results, max_size, k) ==
    /\ CanRaiseAt(results, k)
    /\ TooBig(IF results.kind = "list" THEN results.items[k] ELSE results, max_size)

\* Popen is reached when the component has filters: the items of results at
\* which copy can raise with the destination opened
CanOpenAt(results, max_size, filters, k) ==
    /\ CopiesAt(results, max_size, k)
    /\ filters # {}

\* the outcomes that can happen when the persister is called for c: nothing
\* can fail when it has no document to write; a call of move_it that raises
\* is one that reaches a file operation, and a copy command that fails is one
\* that is run
OutcomesFor(c, brk, to_p, max_size) ==
    LET results == brk.instances[c]
    IN  {o \in PersistOutcomes :
            /\ ~(InBroker(brk, c) /\ c \in to_p) => o.fails = "nothing"
            /\ o.fails = "relocate" => CanRaiseAt(results, o.at)
            /\ o.fails = "popen" => CanOpenAt(results, max_size, get_filters(c), o.at)
            /\ \A k \in 1..MaxListLen :
                  o.cmds[k] # "ok" => /\ InBroker(brk, c) /\ c \in to_p
                                      /\ CopiesAt(results, max_size, k)}

\* relocate when move_it raises at item k: the items before k are moved, the
\* others are as they were; when the call that raised is Popen, the file copy
\* opened for item k lies under raw_data/
relocate_raises(results, max_size, filters, k, call, cmds) ==
    LET item == IF results.kind = "list" THEN results.items[k] ELSE results
        opened == IF call = "popen" THEN {copy_opened(item.path)} ELSE {}
    IN  IF results.kind = "list"
        THEN LET before == relocate(ListOf(SubSeq(results.items, 1, k - 1)),
                                    max_size, filters, cmds)
             IN  [value |-> ListOf(before.value.items
                                       \o SubSeq(results.items, k, Len(results.items))),
                  copies |-> before.copies \cup opened]
        ELSE [value |-> results, copies |-> opened]

\* a log record: the component whose document failed and the call that
\* raised ("relocate", "marshal" or "dump")
LogOf(c, call) == [component |-> c, raised_in |-> call]

\* a file that open(path, "w") created and ser.dump did not complete
PartialFile == [kind |-> "partial"]

\* open(path, "w") or ser.dump raised: the except branch logs the failure and
\* removes the file
dump_failed(c, st) ==
    [st EXCEPT !.writes[c] = @ + 1,
               !.data[c] = NoFile,
               !.logged = @ \cup {LogOf(c, "dump")}]

\* persister(c, broker) over the files of the run. st holds broker, data,
\* writes, raw_data and logged, and escaped, which the persister sets when it
\* leaves with an exception: relocate and marshal are called outside the try
\* block, open(path, "w") and ser.dump inside it.
persister(c, to_p, max_size, st, outcome) ==
    IF InBroker(st.broker, c) /\ c \in to_p
    THEN LET value == st.broker.instances[c]
             stop == IF /\ Truthy(value)
                        /\ \/ /\ outcome.fails = "relocate"
                              /\ CanRaiseAt(value, outcome.at)
                           \/ /\ outcome.fails = "popen"
                              /\ CanOpenAt(value, max_size, get_filters(c),
                                           outcome.at)
                     THEN outcome.at ELSE 0
             moved == IF ~Truthy(value) THEN [value |-> value, copies |-> {}]
                      ELSE IF stop # 0
                           THEN relocate_raises(value, max_size, get_filters(c),
                                                stop, outcome.fails, outcome.cmds)
                           ELSE relocate(value, max_size, get_filters(c),
                                         outcome.cmds)
             doc == [kind |-> "doc",
                     name |-> get_name(c),
                     results |-> marshal(moved.value),
                     errors |-> marshal(st.broker.exceptions[c])]
             relocated == [st EXCEPT !.broker.instances[c] = moved.value,
                                     !.raw_data =
                                         {r \in @ : \A n \in moved.copies :
                                                       n.path # r.path}
                                             \cup moved.copies]
         IN  IF stop # 0 \/ outcome.fails = "marshal"
             THEN [relocated EXCEPT !.escaped = IF stop # 0 THEN "relocate"
                                                ELSE "marshal"]
             ELSE IF outcome.fails = "dump"
                  THEN dump_failed(c, relocated)
                  ELSE [relocated EXCEPT !.writes[c] = @ + 1,
                                         !.data[c] = doc]
    ELSE st

\* Broker.fire_observers: every observer, in registration order; an exception
\* that leaves an observer is logged and the next observer is called
RECURSIVE fire_observers(_, _, _, _, _, _)
fire_observers(observers, c, to_p, max_size, st, outcomes) ==
    IF observers = <<>> THEN st
    ELSE LET left == persister(c, to_p, max_size, st, Head(outcomes))
             seen == [left EXCEPT !.escaped = "nothing",
                                  !.logged = IF left.escaped # "nothing"
                                             THEN @ \cup {LogOf(c, left.escaped)}
                                             ELSE @,
                                  !.notified[c] = Append(@, Head(observers))]
         IN  fire_observers(Tail(observers), c, to_p, max_size, seen,
                            Tail(outcomes))

\* the persister registered twice
RegisteredObservers_Twice == <<"persister", "persister">>

\* broker.add_observer(make_persister(...)): the observers collect registers
RegisteredObservers == <<"persister">>

----------------------------------------------------------------------------
(* Scheduling: dr.run_incremental, from section 4.4 of the design *)

\* enabled and not blacklisted, hence part of the graph the scheduler walks
Eligible(c) ==
    /\ c \in dr_DELEGATES
    /\ IsEnabled(dr_ENABLED, enabledDefault, c)
    /\ get_name(c) \notin blacklist

\* the dependencies of c inside the graph restricted to eligible components
GraphDeps(c) == {d \in Deps(c) : Eligible(d)}

\* c may start: not yet attempted, every dependency in the graph resolved
Schedulable(c) ==
    /\ Eligible(c)
    /\ status[c] = "none"
    /\ \A d \in GraphDeps(c) : status[d] # "none"

\* what a component's execution can return
ValuesOf(c) ==
    IF c = pkgX THEN {FileProvider(1, MaxSize, FALSE)}
    ELSE IF c = pkgY THEN {Inline, Empty}
    ELSE {Inline}

----------------------------------------------------------------------------
(* Inputs of a run *)

\* sequences over S of length at most n
SeqsUpTo(S, n) == UNION {[1..k -> S] : k \in 0..n}

\* override entries and persist directives of the run's manifests
ConfigEntries == [name : {pkgX, pkgZ}, enabled : BOOLEAN]
PersistEntries == [name : {pkg, pkgX}, enabled : BOOLEAN]

\* the packages a manifest can list: the package of the run's components and
\* a package that cannot be imported
Package == "pkg"
MissingPackage == "missing"

\* what importing a package registers (the pre-registered component is part
\* of the package: registering it again changes nothing)
ComponentsOf(p) == IF p = Package THEN Components ELSE {}

\* the import of the package raises
ImportFails(p) == p = MissingPackage

\* the values of the manifest's packages key: no package (also what a missing
\* key reads as), the package, and lists with a package that is not there
PackageLists ==
    {<<>>, <<Package>>, <<MissingPackage>>, <<Package, MissingPackage>>}

\* a manifest as a mapping, with the keys collect reads (a missing key reads
\* as its default, which is among the values)
ManifestDocs ==
    [mapping : {TRUE},
     default_component_enabled : BOOLEAN,
     blacklist : {b \in SUBSET Components : Cardinality(b) <= MaxBlacklist},
     configs : SeqsUpTo(ConfigEntries, MaxConfigs),
     persist : SeqsUpTo(PersistEntries, MaxPersist),
     packages : PackageLists,
     max_serializable_file_size : {0, MaxSize - 1}]

\* a document that is not a mapping: a list, a scalar, nothing
NotAMapping == [mapping |-> FALSE]

\* a manifest as text, and the document yaml.safe_load makes of it
ManifestText(doc) == [mapping |-> FALSE, yaml |-> doc]
yaml_safe_load(text) == text.yaml

\* what collect can be given as its manifest: a mapping, or text that parses
\* to a mapping or to something else
Manifests ==
    ManifestDocs \cup {ManifestText(doc) : doc \in ManifestDocs \cup {NotAMapping}}

\* components registered before collect is called; the packages bring the rest
PreRegistered == {pkgX}

EmptyBroker ==
    [instances |-> [c \in RunIds |-> None],
     exceptions |-> [c \in RunIds |-> None],
     observers |-> <<>>]

Init ==
    /\ pc = "start"
    /\ caller \in {"main", "collect"}
    /\ manifest \in Manifests
    /\ caller = "main" => ~manifest.mapping
    /\ dr_DELEGATES = PreRegistered
    /\ dr_ENABLED \in [PreRegistered -> BOOLEAN]
    /\ enabledDefault = TRUE
    /\ blacklist = {}
    /\ to_persist = {}
    /\ max_file_size = 0
    /\ broker = EmptyBroker
    /\ status = [c \in RunIds |-> "none"]
    /\ executed = [c \in RunIds |-> 0]
    /\ early = [c \in RunIds |-> {}]
    /\ pending = NoComponent
    /\ notified = [c \in RunIds |-> <<>>]
    /\ data = [c \in RunIds |-> NoFile]
    /\ writes = [c \in RunIds |-> 0]
    /\ raw_data = {}
    /\ logged = {}
    /\ workdir = "absent"
    /\ archive = "none"
    /\ result = "none"
    /\ printed = "none"

registryVars == <<dr_DELEGATES, dr_ENABLED, enabledDefault, blacklist>>
runVars == <<broker, status, executed, early, pending, notified>>
fileVars == <<data, writes, raw_data, logged>>
endVars == <<archive, result, printed>>

----------------------------------------------------------------------------
(* collect(), step by step *)

\* a load_manifest that falls back to an empty mapping, every key at its
\* default, when the text does not parse to a mapping
LoadManifest_Fallback ==
    /\ pc = "start"
    /\ LET doc == IF manifest.mapping THEN manifest ELSE yaml_safe_load(manifest)
       IN  manifest' = IF doc.mapping THEN doc
                       ELSE [mapping |-> TRUE,
                             default_component_enabled |-> FALSE,
                             blacklist |-> {},
                             configs |-> <<>>,
                             persist |-> <<>>,
                             packages |-> <<>>,
                             max_serializable_file_size |-> 0]
    /\ pc' = "loaded"
    /\ UNCHANGED <<caller, registryVars, to_persist, max_file_size,
                   runVars, fileVars, workdir, endVars>>

\* load_manifest: a mapping is returned as it is, text is parsed, and a
\* document that is not a mapping raises
LoadManifest ==
    /\ pc = "start"
    /\ LET doc == IF manifest.mapping THEN manifest ELSE yaml_safe_load(manifest)
       IN  IF doc.mapping
           THEN pc' = "loaded" /\ manifest' = doc /\ result' = result
           ELSE pc' = "aborted" /\ manifest' = manifest /\ result' = "exception"
    /\ UNCHANGED <<caller, registryVars, to_persist, max_file_size,
                   runVars, fileVars, workdir, archive, printed>>

\* an apply_default_enabled that sweeps the existing keys and leaves the
\* default factory of the map as it was
ApplyDefaultEnabled_SweepOnly ==
    /\ pc = "loaded"
    /\ dr_ENABLED' = DefaultedKeys(dr_ENABLED, manifest.default_component_enabled)
    /\ pc' = "defaulted"
    /\ UNCHANGED <<caller, manifest, dr_DELEGATES, enabledDefault, blacklist,
                   to_persist, max_file_size, runVars, fileVars, workdir, endVars>>

\* apply_default_enabled(manifest.get("default_component_enabled", False))
ApplyDefaultEnabled ==
    /\ pc = "loaded"
    /\ dr_ENABLED' = DefaultedKeys(dr_ENABLED, manifest.default_component_enabled)
    /\ enabledDefault' = manifest.default_component_enabled
    /\ pc' = "defaulted"
    /\ UNCHANGED <<caller, manifest, dr_DELEGATES, blacklist, to_persist,
                   max_file_size, runVars, fileVars, workdir, endVars>>

\* load_packages(pkgs): dr.load_components for every package of the list, in
\* order, with continue_on_error=False: the first import that fails raises,
\* and the packages before it stay registered
RECURSIVE load_packages(_, _)
load_packages(delegates, pkgs) ==
    IF pkgs = <<>> THEN [delegates |-> delegates, raised |-> FALSE]
    ELSE IF ImportFails(Head(pkgs)) THEN [delegates |-> delegates, raised |-> TRUE]
    ELSE load_packages(delegates \cup ComponentsOf(Head(pkgs)), Tail(pkgs))

\* load_packages(manifest.get("packages", [])): the components of the listed
\* packages are registered; an import that fails raises out of collect
LoadPackages ==
    /\ pc = "defaulted"
    /\ LET loaded == load_packages(dr_DELEGATES, manifest.packages)
       IN  /\ dr_DELEGATES' = loaded.delegates
           /\ IF loaded.raised
              THEN pc' = "import_failed" /\ result' = "exception"
              ELSE pc' = "packaged" /\ result' = result
    /\ UNCHANGED <<caller, manifest, dr_ENABLED, enabledDefault, blacklist,
                   to_persist, max_file_size, runVars, fileVars, workdir,
                   archive, printed>>

\* an apply_blacklist that reads the wrong key and adds nothing
ApplyBlacklist_Nothing ==
    /\ pc = "packaged"
    /\ pc' = "blacklisted"
    /\ UNCHANGED <<caller, manifest, registryVars, to_persist, max_file_size,
                   runVars, fileVars, workdir, endVars>>

\* apply_blacklist: blacklist.add_command for every listed command
ApplyBlacklist ==
    /\ pc = "packaged"
    /\ blacklist' = blacklist \cup {get_name(b) : b \in manifest.blacklist}
    /\ pc' = "blacklisted"
    /\ UNCHANGED <<caller, manifest, dr_DELEGATES, dr_ENABLED, enabledDefault,
                   to_persist, max_file_size, runVars, fileVars, workdir, endVars>>

\* apply_configs(manifest.get("configs", []))
ApplyConfigs ==
    /\ pc = "blacklisted"
    /\ dr_ENABLED' = apply_configs(dr_ENABLED, dr_DELEGATES, manifest.configs)
    /\ pc' = "configured"
    /\ UNCHANGED <<caller, manifest, dr_DELEGATES, enabledDefault, blacklist,
                   to_persist, max_file_size, runVars, fileVars, workdir, endVars>>

\* a collect that does not store the context in the broker
Prepare_NoContext ==
    /\ pc = "configured"
    /\ to_persist' = get_to_persist(dr_DELEGATES, manifest.persist)
    /\ max_file_size' = manifest.max_serializable_file_size
    /\ workdir' = "present"
    /\ broker' = [EmptyBroker EXCEPT !.observers = RegisteredObservers]
    /\ pc' = "running"
    /\ UNCHANGED <<caller, manifest, registryVars, status, executed, early,
                   pending, notified, fileVars, endVars>>

\* a collect that does not register the persister with the broker
Prepare_NoObserver ==
    /\ pc = "configured"
    /\ to_persist' = get_to_persist(dr_DELEGATES, manifest.persist)
    /\ max_file_size' = manifest.max_serializable_file_size
    /\ workdir' = "present"
    /\ broker' = [EmptyBroker EXCEPT !.instances[CtxClass] = CtxObject]
    /\ pc' = "running"
    /\ UNCHANGED <<caller, manifest, registryVars, status, executed, early,
                   pending, notified, fileVars, endVars>>

\* lines 226-239: the context, the persist set, the output directory, the
\* broker seeded with the context, the persister registered
Prepare ==
    /\ pc = "configured"
    /\ to_persist' = get_to_persist(dr_DELEGATES, manifest.persist)
    /\ max_file_size' = manifest.max_serializable_file_size
    /\ workdir' = "present"
    /\ broker' = [instances |-> [EmptyBroker.instances EXCEPT ![CtxClass] = CtxObject],
                  exceptions |-> EmptyBroker.exceptions,
                  observers |-> RegisteredObservers]
    /\ pc' = "running"
    /\ UNCHANGED <<caller, manifest, registryVars, status, executed, early,
                   pending, notified, fileVars, endVars>>

\* the scheduler executes one component: it returns a value or raises
RunComponent(c) ==
    /\ pc = "running"
    /\ pending = NoComponent
    /\ Schedulable(c)
    /\ \E v \in ValuesOf(c) \cup {Raised} :
          IF v = Raised
          THEN /\ broker' = [broker EXCEPT !.exceptions[c] = Raised]
               /\ status' = [status EXCEPT ![c] = "failed"]
          ELSE /\ broker' = [broker EXCEPT !.instances[c] = v]
               /\ status' = [status EXCEPT ![c] = "ok"]
    /\ executed' = [executed EXCEPT ![c] = @ + 1]
    /\ early' = [early EXCEPT ![c] = {d \in Deps(c) : status[d] = "none"}]
    /\ pending' = c
    /\ notified' = notified
    /\ UNCHANGED <<pc, caller, manifest, registryVars, to_persist, max_file_size,
                   fileVars, workdir, endVars>>

\* the completion of the pending component is announced to every observer
FireObservers ==
    /\ pc = "running"
    /\ pending # NoComponent
    /\ \E outcomes \in [1..Len(broker.observers) ->
                            OutcomesFor(pending, broker, to_persist,
                                        max_file_size)] :
          LET st == fire_observers(broker.observers, pending, to_persist,
                                   max_file_size,
                                   [broker |-> broker, data |-> data,
                                    writes |-> writes, raw_data |-> raw_data,
                                    logged |-> logged, notified |-> notified,
                                    escaped |-> "nothing"],
                                   outcomes)
          IN  /\ broker' = st.broker
              /\ notified' = st.notified
              /\ data' = st.data
              /\ writes' = st.writes
              /\ raw_data' = st.raw_data
              /\ logged' = st.logged
    /\ pending' = NoComponent
    /\ UNCHANGED <<pc, caller, manifest, registryVars, to_persist, max_file_size,
                   status, executed, early, workdir, endVars>>

\* a collect that does not exhaust the run_incremental generator
Drained_NotExhausted ==
    /\ pc = "running"
    /\ pending = NoComponent
    /\ IF caller = "main"
       THEN pc' = "archiving" /\ result' = result
       ELSE pc' = "done" /\ result' = "output_path"
    /\ UNCHANGED <<caller, manifest, registryVars, to_persist, max_file_size,
                   runVars, fileVars, workdir, archive, printed>>

\* a collect that goes on only when no component failed and nothing was logged
Drained_UnlessFailed ==
    /\ pc = "running"
    /\ pending = NoComponent
    /\ \A c \in RunIds : ~Schedulable(c)
    /\ \A c \in RunIds : status[c] # "failed"
    /\ logged = {}
    /\ IF caller = "main"
       THEN pc' = "archiving" /\ result' = result
       ELSE pc' = "done" /\ result' = "output_path"
    /\ UNCHANGED <<caller, manifest, registryVars, to_persist, max_file_size,
                   runVars, fileVars, workdir, archive, printed>>

\* run_incremental is exhausted: collect returns the directory, or archives it
Drained ==
    /\ pc = "running"
    /\ pending = NoComponent
    /\ \A c \in RunIds : ~Schedulable(c)
    /\ IF caller = "main"
       THEN pc' = "archiving" /\ result' = result
       ELSE pc' = "done" /\ result' = "output_path"
    /\ UNCHANGED <<caller, manifest, registryVars, to_persist, max_file_size,
                   runVars, fileVars, workdir, archive, printed>>

\* create_archive: tar is called and its exit status dropped, the directory is
\* removed with every document of data/ and every file of raw_data/ in it,
\* the archive path returned
CreateArchive ==
    /\ pc = "archiving"
    /\ \E tarOk \in BOOLEAN : archive' = IF tarOk THEN "complete" ELSE "broken"
    /\ workdir' = "removed"
    /\ data' = [c \in RunIds |-> NoFile]
    /\ raw_data' = {}
    /\ result' = "archive_path"
    /\ pc' = "returned"
    /\ UNCHANGED <<caller, manifest, registryVars, to_persist, max_file_size,
                   runVars, writes, logged, printed>>

\* main prints what collect returned
MainPrint ==
    /\ pc = "returned"
    /\ caller = "main"
    /\ printed' = result
    /\ pc' = "done"
    /\ UNCHANGED <<caller, manifest, registryVars, to_persist, max_file_size,
                   runVars, fileVars, workdir, archive, result>>

Next ==
    \/ LoadManifest
    \/ ApplyDefaultEnabled
    \/ LoadPackages
    \/ ApplyBlacklist
    \/ ApplyConfigs
    \/ Prepare
    \/ \E c \in Components : RunComponent(c)
    \/ FireObservers
    \/ Drained
    \/ CreateArchive
    \/ MainPrint

Spec == Init /\ [][Next]_vars

\* main and collect are sequential code in one thread: a statement that can
\* run does run, the scheduler goes on to the next component, the calls return
\* the runs of the command line without overrides: main hands collect the
\* text of a manifest, and the default, the blacklist and the persist
\* directives decide what is run and what is written
InitMain ==
    /\ Init
    /\ caller = "main"
    /\ yaml_safe_load(manifest).mapping => yaml_safe_load(manifest).configs = <<>>

FairSpec == InitMain /\ [][Next]_vars /\ WF_vars(Next)

----------------------------------------------------------------------------
(* Properties of the run *)

\* a failure to persist c was logged
Logged(c) == \E l \in logged : l.component = c

\* the scheduler has drained
AfterRun == pc \in {"archiving", "returned", "done"}

\* the enabled-state collect resolved for c
EnabledNow(c) == IsEnabled(dr_ENABLED, enabledDefault, c)

\* the manifest lists c in its blacklist
Blacklisted(c) == manifest.mapping /\ c \in manifest.blacklist

\* some configs entry matching c sets enabled to true
ExplicitlyEnabled(c) ==
    \E i \in 1..Len(manifest.configs) :
        StartsWith(get_name(c), manifest.configs[i].name) /\ manifest.configs[i].enabled

\* C1: a component whose identifier the manifest blacklists never has a
\* document under data/, also when a configs entry enables it and a persist
\* directive selects it.
C1_BlacklistedNeverPersisted ==
    \A c \in Components : Blacklisted(c) => data[c] = NoFile

C1_Witness ==
    /\ pc = "done"
    /\ \E c \in Components :
          /\ Blacklisted(c)
          /\ ExplicitlyEnabled(c)
          /\ EnabledNow(c)
          /\ c \in to_persist
          /\ \E d \in Components \ {c} : data[d] # NoFile

\* C3 as claimed: when a persist-eligible component C raised, every
\* persist-eligible sibling that does not depend on C and itself completed has
\* its document, and C has a document with a non-empty errors field and no
\* result.
C3_FailedComponentDocumented ==
    AfterRun =>
        \A C \in Components :
            (Eligible(C) /\ C \in to_persist /\ status[C] = "failed") =>
                /\ \A S \in Components \ {C} :
                      (/\ Eligible(S)
                       /\ S \in to_persist
                       /\ C \notin Deps(S)
                       /\ status[S] = "ok"
                       /\ ~Logged(S)) => data[S] # NoFile
                /\ data[C] # NoFile
                /\ data[C].errors # None
                /\ data[C].results = None

\* C4 as claimed: a component starts only after every declared dependency
\* has been resolved.
C4_StartsAfterDeclaredDeps ==
    \A c \in Components : executed[c] > 0 => early[c] = {}

\* C4, amended: every registered, enabled, non-blacklisted component is
\* executed exactly once, no other component is executed, and a component
\* starts only after each declared dependency that is itself registered,
\* enabled and not blacklisted has been resolved.
C4_ExecutedOnceInGraphOrder ==
    /\ \A c \in RunIds : executed[c] <= 1
    /\ \A c \in RunIds :
          executed[c] > 0 => c \in dr_DELEGATES /\ EnabledNow(c) /\ ~Blacklisted(c)
    /\ AfterRun =>
          \A c \in dr_DELEGATES :
              (EnabledNow(c) /\ ~Blacklisted(c)) => executed[c] = 1
    /\ \A c \in Components :
          executed[c] > 0 =>
              \A d \in early[c] :
                  d \notin dr_DELEGATES \/ ~EnabledNow(d) \/ Blacklisted(d)

C4_Witness ==
    /\ pc = "done"
    /\ executed[pkgX] = 1
    /\ executed[pkgY] = 1
    /\ early[pkgY] = {}
    /\ executed[pkgZ] = 0
    /\ ~Eligible(pkgZ)

\* C5: the document of a component is opened for writing at most once.
C5_WrittenAtMostOnce == \A c \in RunIds : writes[c] <= 1

C5_Witness ==
    /\ pc = "done"
    /\ \E c \in Components : writes[c] = 1 /\ data[c] # NoFile
    /\ \E c \in Components : writes[c] = 1 /\ data[c] = NoFile

\* C6 as claimed: every key of the broker's value map, the context class
\* included, is enabled and not blacklisted.
C6_ValueKeysEligible ==
    \A c \in RunIds : InBroker(broker, c) => EnabledNow(c) /\ ~Blacklisted(c)

\* C6, amended: every key of the value map other than the execution-context
\* class is a registered component that is enabled and not blacklisted; the
\* context class is stored from the moment the broker is set up, whatever
\* its enabled-state.
C6_ValueKeysEligibleButContext ==
    /\ \A c \in RunIds \ {CtxClass} :
          InBroker(broker, c) => c \in dr_DELEGATES /\ EnabledNow(c) /\ ~Blacklisted(c)
    /\ (pc = "running" \/ AfterRun) => InBroker(broker, CtxClass)

C6_Witness ==
    /\ pc = "done"
    /\ InBroker(broker, CtxClass)
    /\ ~EnabledNow(CtxClass)
    /\ InBroker(broker, pkgX)

\* C is the only enabled component and nothing is blacklisted
OnlyEnabled(C) ==
    /\ {c \in dr_DELEGATES : EnabledNow(c)} = {C}
    /\ manifest.blacklist = {}

\* C7, where the persist directives select C and no failure to write its
\* document was logged: with only C enabled (C without dependencies) and an
\* empty blacklist, the scheduler drains with exactly one document in data/,
\* C's, written once.
C7_OneDocumentWhenSelected ==
    (AfterRun /\ workdir = "present") =>
        \A C \in Components :
            (Deps(C) = {} /\ OnlyEnabled(C) /\ C \in to_persist /\ ~Logged(C)) =>
                /\ data[C] # NoFile
                /\ writes[C] = 1
                /\ \A d \in RunIds \ {C} : data[d] = NoFile

\* the manifest of the section 8 scenario
C8_Scenario ==
    /\ manifest.mapping
    /\ ~manifest.default_component_enabled
    /\ manifest.persist = <<[name |-> pkgX, enabled |-> TRUE]>>
    /\ manifest.configs = <<>>

\* C8 as claimed: the scenario ends with a data/pkg.X file and no data/pkg.Y
\* file.
C8_ScenarioWritesX ==
    (AfterRun /\ C8_Scenario) => data[pkgX] # NoFile /\ data[pkgY] = NoFile

\* C8, amended: the scenario ends with neither a data/pkg.X nor a data/pkg.Y
\* file, because with the default off and no override neither component is
\* enabled and neither is executed.
C8_ScenarioWritesNothing ==
    (AfterRun /\ C8_Scenario) =>
        /\ data[pkgX] = NoFile
        /\ data[pkgY] = NoFile
        /\ executed[pkgX] = 0
        /\ executed[pkgY] = 0

C8_Witness ==
    /\ pc = "done"
    /\ C8_Scenario
    /\ manifest.blacklist = {}
    /\ pkgX \in to_persist
    /\ pkgY \notin to_persist
    /\ {pkgX, pkgY} \subseteq dr_DELEGATES

\* C10 as claimed: when the archive command failed, collect does not return
\* an archive path and main does not print one.
C10_ArchiveFailureSurfaced ==
    archive = "broken" => result # "archive_path" /\ printed # "archive_path"

\* C11 as claimed: the working directory is removed only once a complete
\* archive exists; when the archive command failed the directory is still
\* there.
C11_RemovedOnlyAfterArchive ==
    /\ workdir = "removed" => archive = "complete"
    /\ archive = "broken" => workdir = "present"

\* create_archive has begun or is about to: collect has left the scheduler loop
ArchiveBegun == pc = "archiving" \/ archive # "none"

\* C12 as claimed: the archive is started only once the scheduler has
\* drained: when create_archive begins no completion waits for its observers
\* and no component is left to start, and from then on no component is
\* executed and no document is written or removed.
C12_NothingRemovedAfterArchiveBegun ==
    /\ [](ArchiveBegun =>
             /\ pending = NoComponent
             /\ \A c \in RunIds : ~Schedulable(c))
    /\ [][ArchiveBegun =>
             UNCHANGED <<status, executed, broker, data, writes, raw_data>>]_vars

\* C12, amended: the archive is started only once the scheduler has drained,
\* and from then on no component is executed and no document is written; the
\* documents and the relocated files stay as they are until create_archive,
\* having run the archive command, removes the working directory and all of
\* them with it.
C12_ArchiveAfterDrain ==
    /\ [](ArchiveBegun =>
             /\ pending = NoComponent
             /\ \A c \in RunIds : ~Schedulable(c))
    /\ [][ArchiveBegun =>
             /\ UNCHANGED <<status, executed, broker, writes>>
             /\ \/ UNCHANGED <<data, raw_data, workdir>>
                \/ /\ workdir = "present" /\ workdir' = "removed"
                   /\ archive = "none" /\ archive' # "none"
                   /\ data' = [c \in RunIds |-> NoFile]
                   /\ raw_data' = {}]_vars

C12_Witness ==
    /\ pc = "done"
    /\ archive = "complete"
    /\ workdir = "removed"
    /\ executed[pkgX] = 1
    /\ executed[pkgY] = 1
    /\ status[pkgZ] = "failed"
    /\ writes[pkgX] = 1
    /\ ~Logged(pkgX)
    /\ data[pkgX] = NoFile

\* C13: every completion, success or failure, is announced to every
\* registered observer, the persister included, once and in registration
\* order, before the scheduler starts the next component: a completed
\* component is either the one being announced or has been announced to all
\* observers, a component starts only when no announcement is outstanding,
\* and by then the document of every selected component that completed with
\* a value is on disk unless its failure was logged.
C13_ObserversBeforeNext ==
    /\ [](\A c \in Components :
             /\ status[c] = "none" => notified[c] = <<>>
             /\ status[c] # "none" =>
                   IF pending = c THEN notified[c] = <<>>
                   ELSE notified[c] = RegisteredObservers)
    /\ [][\A c \in Components :
             executed'[c] # executed[c] =>
                /\ pending = NoComponent
                /\ \A d \in Components :
                      status[d] # "none" =>
                         /\ notified[d] = RegisteredObservers
                         /\ (d \in to_persist /\ status[d] = "ok" /\ ~Logged(d))
                               => data[d] # NoFile]_vars

C13_Witness ==
    /\ pending = pkgZ
    /\ status[pkgX] = "failed"
    /\ notified[pkgX] = RegisteredObservers
    /\ status[pkgY] = "ok"
    /\ notified[pkgY] = RegisteredObservers
    /\ data[pkgY] # NoFile
    /\ notified[pkgZ] = <<>>

\* no configs entry matches c
Untouched(c) ==
    \A i \in 1..Len(manifest.configs) :
        ~StartsWith(get_name(c), manifest.configs[i].name)

\* C14: after apply_default_enabled(v), v being the manifest's
\* default_component_enabled, every registered component reads as v, those
\* registered before the call whatever their state was and those the
\* packages register after it; once the overrides are applied, every
\* component no override entry matches still reads as v.
C14_DefaultAppliesToLaterComponents ==
    /\ pc \in {"defaulted", "import_failed", "packaged", "blacklisted"} =>
          \A c \in dr_DELEGATES :
              EnabledNow(c) = manifest.default_component_enabled
    /\ pc \in {"configured", "running", "archiving", "returned", "done"} =>
          \A c \in dr_DELEGATES :
              Untouched(c) => EnabledNow(c) = manifest.default_component_enabled

C14_Witness ==
    /\ pc = "configured"
    /\ ~manifest.default_component_enabled
    /\ PreRegistered \subseteq dr_DELEGATES
    /\ pkgZ \in dr_DELEGATES \ PreRegistered
    /\ pkgZ \notin DOMAIN dr_ENABLED
    /\ ~EnabledNow(pkgZ)
    /\ Untouched(pkgY)
    /\ ~EnabledNow(pkgY)
    /\ EnabledNow(pkgX)

\* the document of c was written although a file its value refers to was
\* neither loaded nor copied: the copy command failed and nothing tells
CopyLost(c) ==
    /\ data[c] # NoFile
    /\ LET v == broker.instances[c]
           items == IF v.kind = "list" THEN v.items ELSE <<v>>
       IN  \E i \in 1..Len(items) :
               /\ items[i].kind = "file"
               /\ ~items[i].loaded
               /\ \A r \in raw_data : r.path # items[i].path

\* C16: a failure while the document of a component is produced, in
\* relocate, in marshal or in the dump to the file, is not fatal: the
\* failure is logged (a selected component that completed with a value and was
\* announced has its document or a log record, and a component that lost a
\* file in relocation has a log record), no document file is left for a
\* component whose failure was logged, and the run goes on to execute every
\* other component and to return normally.
C16_PersistFailureNotFatal ==
    /\ \A c \in Components :
          /\ Logged(c) => data[c] = NoFile
          /\ data[c] # PartialFile
          /\ (c \in to_persist /\ InBroker(broker, c) /\ pending # c
                /\ workdir = "present")
                => (data[c] # NoFile \/ Logged(c))
          /\ CopyLost(c) => Logged(c)
    /\ (AfterRun /\ logged # {}) =>
          /\ result # "exception"
          /\ \A c \in Components : Eligible(c) => executed[c] = 1

\* C17: when the manifest text parses to something that is not a mapping,
\* load_manifest raises and collect ends there, before anything else: the
\* enabled-states, the blacklist and the registry are as they were, no output
\* directory exists, no component was run and nothing follows; a manifest
\* that already is a mapping is returned unchanged, and text that parses to a
\* mapping is replaced by that mapping.
C17_NonMappingAborts ==
    /\ [][pc = "start" =>
             IF manifest.mapping
             THEN pc' = "loaded" /\ manifest' = manifest
             ELSE IF yaml_safe_load(manifest).mapping
                  THEN pc' = "loaded" /\ manifest' = yaml_safe_load(manifest)
                  ELSE /\ pc' = "aborted"
                       /\ result' = "exception"
                       /\ UNCHANGED <<registryVars, workdir, runVars, fileVars>>]_vars
    /\ [](pc = "aborted" =>
             /\ ~manifest.mapping
             /\ ~yaml_safe_load(manifest).mapping
             /\ dr_DELEGATES = PreRegistered
             /\ DOMAIN dr_ENABLED = PreRegistered
             /\ enabledDefault = TRUE
             /\ blacklist = {}
             /\ workdir = "absent"
             /\ archive = "none"
             /\ \A c \in RunIds : executed[c] = 0 /\ data[c] = NoFile)
    /\ [][pc # "aborted"]_vars

C17_Witness ==
    /\ pc = "aborted"
    /\ caller = "main"
    /\ manifest = ManifestText(NotAMapping)
    /\ result = "exception"
    /\ printed = "none"
    /\ ~dr_ENABLED[pkgX]

\* C18: once the scheduler has started, the process run by main goes on to
\* create_archive, whichever components raise or time out and whichever
\* documents fail to be relocated, marshalled or dumped.
C18_ArchiveEventuallyAttempted ==
    (pc = "running" /\ caller = "main") ~> (archive # "none")

C18_Witness ==
    /\ caller = "main"
    /\ archive # "none"
    /\ status[pkgX] = "failed"
    /\ status[pkgY] = "ok"
    /\ LogOf(pkgY, "marshal") \in logged
    /\ LogOf(pkgZ, "dump") \in logged

\* C20: every document under data/ is the document of a component that
\* get_to_persist selected and that has a value in the broker, and the
\* announcement of a component that is not selected or has no value writes
\* nothing: data/ and raw_data/ are as they were.
C20_DocumentsOnlyForSelected ==
    /\ [](\A c \in RunIds :
             data[c] # NoFile =>
                /\ c \in get_to_persist(dr_DELEGATES, manifest.persist)
                /\ c \in to_persist
                /\ broker.instances[c] # None)
    /\ [][(/\ pending # NoComponent
           /\ \/ pending \notin to_persist
              \/ broker.instances[pending] = None)
             => UNCHANGED <<data, writes, raw_data>>]_vars

C20_Witness ==
    /\ pc = "running"
    /\ pending = NoComponent
    /\ pkgX \in to_persist
    /\ status[pkgX] = "failed"
    /\ notified[pkgX] # <<>>
    /\ data[pkgX] = NoFile
    /\ status[pkgZ] = "ok"
    /\ data[pkgZ] # NoFile
    /\ status[pkgY] = "none"







----------------------------------------------------------------------------
(* apply_configs and get_to_persist on their own: any registry, any prior
   enabled-state, the same ordered list of entries given as the overrides and
   as the persist directives *)

OverrideEntries == [name : {nA, nAB}, enabled : BOOLEAN] \cup {[name |-> nAB]}

InitOverrides ==
    /\ pc = "blacklisted"
    /\ caller = "collect"
    /\ \E rules \in SeqsUpTo(OverrideEntries, MaxOverrides) :
          manifest = [mapping |-> TRUE,
                      default_component_enabled |-> FALSE,
                      blacklist |-> {},
                      configs |-> rules,
                      persist |-> rules,
                      packages |-> <<>>,
                      max_serializable_file_size |-> 0]
    /\ dr_DELEGATES \in SUBSET OverrideNames
    /\ dr_ENABLED \in [dr_DELEGATES -> BOOLEAN]
    /\ enabledDefault = FALSE
    /\ blacklist = {}
    /\ to_persist = {}
    /\ max_file_size = 0
    /\ broker = EmptyBroker
    /\ status = [c \in RunIds |-> "none"]
    /\ executed = [c \in RunIds |-> 0]
    /\ early = [c \in RunIds |-> {}]
    /\ pending = NoComponent
    /\ notified = [c \in RunIds |-> <<>>]
    /\ data = [c \in RunIds |-> NoFile]
    /\ writes = [c \in RunIds |-> 0]
    /\ raw_data = {}
    /\ logged = {}
    /\ workdir = "absent"
    /\ archive = "none"
    /\ result = "none"
    /\ printed = "none"

NextOverrides ==
    \/ ApplyConfigs
    \/ Prepare

SpecOverrides == InitOverrides /\ [][NextOverrides]_vars

\* the override list of section 8
C2_Overrides == <<[name |-> nA, enabled |-> FALSE], [name |-> nAB, enabled |-> TRUE]>>

C2_Applied == pc = "configured" /\ manifest.configs = C2_Overrides

\* C2 as claimed: after the two overrides every component under "a.b" is
\* enabled and every other component under "a" is disabled, whatever names
\* are registered.
C2_LaterMoreSpecificWins ==
    C2_Applied =>
        \A c \in dr_DELEGATES :
            /\ StartsWith(get_name(c), nAB) => EnabledNow(c)
            /\ (StartsWith(get_name(c), nA) /\ ~StartsWith(get_name(c), nAB))
                   => ~EnabledNow(c)

\* C2, amended: after the two overrides every component under "a.b" is
\* enabled unless a component named exactly "a.b" is registered, and every
\* other component under "a" is disabled unless a component named exactly "a"
\* is registered; a component named exactly "a" ends disabled and one named
\* exactly "a.b" ends enabled (the exact match ends that entry's sweep, so the
\* components sorted after it are not touched by the entry).
C2_LaterMoreSpecificWinsUnlessExact ==
    C2_Applied =>
        /\ nAB \notin dr_DELEGATES =>
              \A c \in dr_DELEGATES : StartsWith(get_name(c), nAB) => EnabledNow(c)
        /\ nA \notin dr_DELEGATES =>
              \A c \in dr_DELEGATES :
                  (StartsWith(get_name(c), nA) /\ ~StartsWith(get_name(c), nAB))
                      => ~EnabledNow(c)
        /\ nA \in dr_DELEGATES => ~EnabledNow(nA)
        /\ nAB \in dr_DELEGATES => EnabledNow(nAB)

C2_Witness ==
    /\ C2_Applied
    /\ dr_DELEGATES = {nABC, nAC, nAb, nB}
    /\ EnabledNow(nABC)
    /\ ~EnabledNow(nAC)
    /\ ~EnabledNow(nAb)
    /\ EnabledNow(nB)

\* the components the override evaluation of apply_configs leaves enabled
\* when every component starts disabled
EnabledFromAllDisabled(delegates, rules) ==
    {c \in delegates :
        IsEnabled(apply_configs([k \in delegates |-> FALSE], delegates, rules),
                  FALSE, c)}

\* C15 as claimed: for every registry and every ordered rule list, the set
\* get_to_persist selects is the set the override evaluation leaves enabled
\* when started from all-disabled.
C15_PersistSetIsOverrideEvaluation ==
    pc = "running" =>
        to_persist = EnabledFromAllDisabled(dr_DELEGATES, manifest.persist)

\* the entry e modifies c: c's name starts with e's name and c does not come,
\* in ascending name order, after a component named exactly as e
ModifiedBy(c, e) ==
    /\ StartsWith(get_name(c), e.name)
    /\ \A d \in dr_DELEGATES :
          get_name(d) = e.name => ~StrLess(get_name(d), get_name(c))

\* the state of c after the entries, each one looked at on its own over all
\* the components, in list order, starting from the state v
RECURSIVE StateAfter(_, _, _)
StateAfter(entries, c, v) ==
    IF entries = <<>> THEN v
    ELSE StateAfter(Tail(entries), c,
                    IF ModifiedBy(c, Head(entries)) THEN GetEnabled(Head(entries))
                    ELSE v)

\* C19: an override entry sets the state of the components whose name starts
\* with its name, in ascending name order, up to and including a component
\* named exactly as the entry; no component after that one is modified by the
\* entry, and no component the entry does not match; every later entry is
\* applied in the same way over all the components from the start.
C19_ExactMatchEndsSweep ==
    [][(pc = "blacklisted" /\ pc' = "configured") =>
          \A c \in dr_DELEGATES :
              /\ c \in DOMAIN dr_ENABLED'
              /\ dr_ENABLED'[c] = StateAfter(manifest.configs, c, EnabledNow(c))]_vars

C19_Witness ==
    /\ pc = "configured"
    /\ manifest.configs = <<[name |-> nAB, enabled |-> FALSE],
                            [name |-> nA, enabled |-> TRUE]>>
    /\ dr_DELEGATES = {nA, nAB, nABC, nAC}
    /\ EnabledNow(nA)
    /\ ~EnabledNow(nAB)
    /\ EnabledNow(nABC)
    /\ ~EnabledNow(nAC)


----------------------------------------------------------------------------
(* relocate on its own: the persister announced a completed component whose
   value is any file reference, inline value or list of them *)

\* what one result can be: a file reference of any size, loaded or not, or
\* an inline value
Shapes ==
    {FileProvider(1, size, loaded) : size \in 0..MaxSize, loaded \in BOOLEAN}
        \cup {Inline}

\* the result at position i of a list refers to the file of path i
ItemAt(i, shape) == IF shape.kind = "file" THEN [shape EXCEPT !.path = i] ELSE shape

RelocValues ==
    Shapes \cup
    {ListOf([i \in 1..Len(f) |-> ItemAt(i, f[i])]) : f \in SeqsUpTo(Shapes, MaxListLen)}

InitRelocate ==
    /\ pc = "running"
    /\ caller = "collect"
    /\ max_file_size \in 0..MaxSize
    /\ manifest = [mapping |-> TRUE,
                   default_component_enabled |-> TRUE,
                   blacklist |-> {},
                   configs |-> <<>>,
                   persist |-> <<[name |-> pkg, enabled |-> TRUE]>>,
                   packages |-> <<Package>>,
                   max_serializable_file_size |-> max_file_size]
    /\ dr_DELEGATES = Components
    /\ dr_ENABLED = [c \in PreRegistered |-> TRUE]
    /\ enabledDefault = TRUE
    /\ blacklist = {}
    /\ to_persist = Components
    /\ pending \in {pkgX, pkgZ}
    /\ \E v \in RelocValues :
          broker = [instances |-> [c \in RunIds |->
                                      IF c = CtxClass THEN CtxObject
                                      ELSE IF c = pending THEN v ELSE None],
                    exceptions |-> [c \in RunIds |-> None],
                    observers |-> RegisteredObservers]
    /\ status = [c \in RunIds |-> IF c = pending THEN "ok" ELSE "none"]
    /\ executed = [c \in RunIds |-> IF c = pending THEN 1 ELSE 0]
    /\ early = [c \in RunIds |-> {}]
    /\ notified = [c \in RunIds |-> <<>>]
    /\ data = [c \in RunIds |-> NoFile]
    /\ writes = [c \in RunIds |-> 0]
    /\ raw_data = {}
    /\ logged = {}
    /\ workdir = "present"
    /\ archive = "none"
    /\ result = "none"
    /\ printed = "none"

NextRelocate == FireObservers

SpecRelocate == InitRelocate /\ [][NextRelocate]_vars

\* the results of a value, one by one
ItemsOf(v) == IF v.kind = "list" THEN v.items ELSE <<v>>

\* a copy of the file of path p lies under raw_data/
CopiedTo(raw, p) == \E r \in raw : r.path = p

\* relocate returned for the component just announced: no failure of it is in
\* the log
RelocateReturns == \A l \in logged : l.raised_in # "relocate"

\* C9: when relocate returns, for every file reference whose content is not
\* loaded yet and every threshold above 0, a file smaller than the threshold
\* is loaded and not copied, and a file larger than the threshold is copied
\* under raw_data/ at its relative path and not loaded; with a threshold of 0
\* (nothing configured) an unloaded reference is loaded and not copied, and a
\* reference that is already loaded is left as it is and not copied.
C9_UnloadedBelowLoadsAboveCopies ==
    [][(pending # NoComponent /\ RelocateReturns') =>
        LET old == ItemsOf(broker.instances[pending])
            new == ItemsOf(broker'.instances[pending])
        IN  \A i \in 1..Len(old) :
                old[i].kind = "file" =>
                    /\ (~old[i].loaded /\ max_file_size > 0
                            /\ old[i].size < max_file_size) =>
                          new[i].loaded /\ ~CopiedTo(raw_data', old[i].path)
                    /\ (~old[i].loaded /\ max_file_size > 0
                            /\ old[i].size > max_file_size) =>
                          ~new[i].loaded /\ CopiedTo(raw_data', old[i].path)
                    /\ (~old[i].loaded /\ max_file_size = 0) =>
                          new[i].loaded /\ ~CopiedTo(raw_data', old[i].path)
                    /\ old[i].loaded =>
                          new[i] = old[i] /\ ~CopiedTo(raw_data', old[i].path)]_vars

\* C21: when relocate returns, no file is copied under raw_data/ for a
\* reference when the threshold is 0 (or absent, which reads the same), when
\* the file's size equals the threshold, or when the reference is already
\* loaded; in the first two cases an unloaded reference is loaded; a result
\* that is not a file reference is returned as it is, and a list keeps its
\* length and the order of its items.
C21_NoCopyAtOrBelowThreshold ==
    [][(pending # NoComponent /\ RelocateReturns') =>
        LET old == ItemsOf(broker.instances[pending])
            new == ItemsOf(broker'.instances[pending])
        IN  /\ broker'.instances[pending].kind = broker.instances[pending].kind
            /\ Len(new) = Len(old)
            /\ \A i \in 1..Len(old) :
                  IF old[i].kind # "file" THEN new[i] = old[i]
                  ELSE /\ new[i].kind = "file"
                       /\ new[i].path = old[i].path
                       /\ new[i].size = old[i].size
                       /\ (\/ max_file_size = 0
                           \/ old[i].size = max_file_size
                           \/ old[i].loaded)
                             => ~CopiedTo(raw_data', old[i].path)
                       /\ (/\ ~old[i].loaded
                           /\ \/ max_file_size = 0
                              \/ old[i].size = max_file_size)
                             => new[i].loaded]_vars

C21_Witness ==
    /\ pc = "running"
    /\ pending = NoComponent
    /\ max_file_size > 0
    /\ raw_data = {}
    /\ \E c \in Components :
          /\ data[c] # NoFile
          /\ broker.instances[c].kind = "list"
          /\ Len(broker.instances[c].items) = 2
          /\ broker.instances[c].items[1] = Inline
          /\ broker.instances[c].items[2].kind = "file"
          /\ broker.instances[c].items[2].size = max_file_size
          /\ broker.instances[c].items[2].loaded
          /\ data[c].results = marshal(broker.instances[c])

====
